---- MODULE Spec2Model ----
(***************************************************************************)
(* A model of FBGitHubReleasesInfoProvider (Mosh/FBGitHubReleasesInfo-     *)
(* Provider.py): one run of the processor's main(), and the pure string    *)
(* and ordering functions it uses.                                         *)
(*                                                                         *)
(* Python strings whose characters matter (tags, asset names, regexes,     *)
(* the repository identifier) are sequences of one-character strings.      *)
(* Python dicts (env, a release) are functions whose DOMAIN is the set of  *)
(* keys present, so that a missing key is a missing key.  self.output()    *)
(* only logs and is left out; process_release_asset is never called.       *)
(***************************************************************************)
EXTENDS Integers, Sequences, FiniteSets, TLC

\* ------------------------------------------------------------------ bounds

\* Longest tag, in characters, of the version-derivation specification.
MaxTagLen == 4
\* Longest release list of the ordering specification.
MaxSortLen == 3
\* Longest release list the API returns in the specification of a run.
MaxReleases == 2
\* Longest asset list of a release in the specification of a run.
MaxAssets == 2

\* ----------------------------------------------------------------- strings

\* s[i..], 1-based; the empty string when i is past the end.
Drop(s, i) == SubSeq(s, i, Len(s))

\* str.startswith
StartsWith(s, p) == Len(p) =< Len(s) /\ SubSeq(s, 1, Len(p)) = p

\* `sub in s`
Contains(s, sub) == \E i \in 1..(Len(s) + 1) : StartsWith(Drop(s, i), sub)

\* str.replace(old, '', 1): only the first occurrence is removed.
ReplaceFirst(s, old) ==
  IF \E i \in 1..Len(s) : StartsWith(Drop(s, i), old)
  THEN LET i == CHOOSE k \in 1..Len(s) :
                  /\ StartsWith(Drop(s, k), old)
                  /\ \A j \in 1..(k - 1) : ~StartsWith(Drop(s, j), old)
       IN  SubSeq(s, 1, i - 1) \o Drop(s, i + Len(old))
  ELSE s

\* str.replace(old, ''): every non-overlapping occurrence of old, found left
\* to right, is removed; replacing the empty string by itself changes nothing.
RECURSIVE Replace(_, _)
Replace(s, old) ==
  IF old = <<>> \/ s = <<>> THEN s
  ELSE IF StartsWith(s, old) THEN Replace(Drop(s, Len(old) + 1), old)
  ELSE <<Head(s)>> \o Replace(Tail(s), old)

\* One leading "-" removed, when there is one.
LStripOne(s) == IF s # <<>> /\ Head(s) = "-" THEN Tail(s) ELSE s

\* str.lstrip('-'): every leading "-" is removed.
RECURSIVE LStrip(_)
LStrip(s) == IF s # <<>> /\ Head(s) = "-" THEN LStrip(Tail(s)) ELSE s

\* str.split('/'): the pieces between the slashes, in order.
RECURSIVE Split(_)
Split(s) ==
  IF \A i \in 1..Len(s) : s[i] # "/" THEN <<s>>
  ELSE LET i == CHOOSE k \in 1..Len(s) : s[k] = "/" /\ \A j \in 1..(k - 1) : s[j] # "/"
       IN  <<SubSeq(s, 1, i - 1)>> \o Split(Drop(s, i + 1))

\* self.env["github_repo"].split('/')[1]; Python's index 1 is the second piece.
ShortName(repo) == Split(repo)[2]

\* The version main() derives from a tag.
Version(tag, repo) ==
  IF StartsWith(tag, <<"v">>) THEN Drop(tag, 2)
  ELSE LStrip(Replace(tag, ShortName(repo)))

\* All strings over alphabet of length at most n.
StringsUpTo(alphabet, n) == UNION {[1..k -> alphabet] : k \in 0..n}

\* All sequences over S of length 1..n.
ListsUpTo(S, n) == UNION {[1..k -> S] : k \in 1..n}

\* ------------------------------------------------------------------- dicts

\* d[k] = v on a dict: the key is added or its value replaced.
Put(d, k, v) == [x \in DOMAIN d \cup {k} |-> IF x = k THEN v ELSE d[x]]

\* JSON null / Python None as the value of a release's "body", which is
\* otherwise a string; no body text of the model spells it.
None == "<None>"

\* Python truth of a value that is None or a string.
Truthy(v) == v \notin {None, ""}

\* `k in d`: the key is there, whatever its value.
HasKey(d, k) == k \in DOMAIN d

\* Python truth of d.get(k) for an input whose value, when given, is a bool.
GetTruthy(d, k) == k \in DOMAIN d /\ d[k] = TRUE

\* Python truth of d.get(k) for a key whose value, when present, is a list
\* or a string of characters.
GetNonEmpty(d, k) == k \in DOMAIN d /\ d[k] # <<>>

\* ------------------------------------------- distutils.version.LooseVersion

Digits == {"0", "1", "2", "3", "4", "5", "6", "7", "8", "9"}
Lower == {"a", "b", "c", "d", "e", "f", "g", "h", "i", "j", "k", "l", "m",
          "n", "o", "p", "q", "r", "s", "t", "u", "v", "w", "x", "y", "z"}

\* The characters of the model in ASCII order; Ord is a character's place in it.
AsciiOrder == <<"-", ".", "/", "0", "1", "2", "3", "4", "5", "6", "7", "8", "9",
                "a", "b", "c", "d", "e", "f", "g", "h", "i", "j", "k", "l", "m",
                "n", "o", "p", "q", "r", "s", "t", "u", "v", "w", "x", "y", "z">>
Ord(c) == CHOOSE i \in 1..Len(AsciiOrder) : AsciiOrder[i] = c

\* The alternative of component_re (\d+ | [a-z]+ | \.) a character falls under;
\* "other" is the text re.split leaves between two matches.
CharClass(c) ==
  IF c \in Digits THEN "digit"
  ELSE IF c \in Lower THEN "lower"
  ELSE IF c = "." THEN "dot"
  ELSE "other"

\* Length of the longest prefix of s whose characters are all of class cls.
RECURSIVE RunLen(_, _)
RunLen(s, cls) ==
  IF s = <<>> \/ CharClass(Head(s)) # cls THEN 0 ELSE 1 + RunLen(Tail(s), cls)

\* int(x) of a string of digits.
RECURSIVE IntOf(_)
IntOf(ds) ==
  IF ds = <<>> THEN 0
  ELSE 10 * IntOf(SubSeq(ds, 1, Len(ds) - 1)) + (Ord(ds[Len(ds)]) - Ord("0"))

\* LooseVersion.parse: the components, dots dropped, digit runs as integers.
RECURSIVE Components(_)
Components(s) ==
  IF s = <<>> THEN <<>>
  ELSE IF Head(s) = "." THEN Components(Tail(s))
  ELSE LET cls == CharClass(Head(s))
           n == RunLen(s, cls)
           run == SubSeq(s, 1, n)
           comp == IF cls = "digit" THEN [num |-> TRUE, n |-> IntOf(run), s |-> <<>>]
                   ELSE [num |-> FALSE, n |-> 0, s |-> run]
       IN  <<comp>> \o Components(Drop(s, n + 1))

\* Python 2 cmp of two strings: by character code, a proper prefix is smaller.
RECURSIVE CmpStr(_, _)
CmpStr(a, b) ==
  IF a = <<>> /\ b = <<>> THEN 0
  ELSE IF a = <<>> THEN -1
  ELSE IF b = <<>> THEN 1
  ELSE IF Ord(Head(a)) < Ord(Head(b)) THEN -1
  ELSE IF Ord(Head(a)) > Ord(Head(b)) THEN 1
  ELSE CmpStr(Tail(a), Tail(b))

\* Python 2 cmp of two components: an int is smaller than any string.
CmpComponent(a, b) ==
  IF a.num /\ b.num THEN (IF a.n < b.n THEN -1 ELSE IF a.n > b.n THEN 1 ELSE 0)
  ELSE IF a.num THEN -1
  ELSE IF b.num THEN 1
  ELSE CmpStr(a.s, b.s)

\* Python 2 cmp of two lists: the first differing element decides, and a
\* proper prefix is smaller.
RECURSIVE CmpList(_, _)
CmpList(x, y) ==
  IF x = <<>> /\ y = <<>> THEN 0
  ELSE IF x = <<>> THEN -1
  ELSE IF y = <<>> THEN 1
  ELSE IF CmpComponent(Head(x), Head(y)) # 0 THEN CmpComponent(Head(x), Head(y))
  ELSE CmpList(Tail(x), Tail(y))

\* cmp(this, that) on the tags themselves, no LooseVersion made of them.
plain_compare(this, that) == CmpStr(this, that)

\* loose_compare(this, that) of main().
loose_compare(this, that) == CmpList(Components(this), Components(that))

\* One release put into a list already in descending order, after every
\* release that does not compare lower (sorted() is stable, also reversed).
RECURSIVE InsertDescending(_, _)
InsertDescending(sorted, rel) ==
  IF sorted = <<>> THEN <<rel>>
  ELSE IF loose_compare(Head(sorted)["tag_name"], rel["tag_name"]) >= 0
       THEN <<Head(sorted)>> \o InsertDescending(Tail(sorted), rel)
       ELSE <<rel>> \o sorted

\* sorted(...) without reverse=True: ascending, and stable.
RECURSIVE SortedByTagAscending(_)
SortedByTagAscending(rels) ==
  IF rels = <<>> THEN <<>>
  ELSE LET rest == SortedByTagAscending(SubSeq(rels, 1, Len(rels) - 1))
           rel == rels[Len(rels)]
           n == Cardinality({i \in 1..Len(rest) :
                               loose_compare(rest[i]["tag_name"], rel["tag_name"]) =< 0})
       IN  SubSeq(rest, 1, n) \o <<rel>> \o Drop(rest, n + 1)

\* sorted(releases, key=itemgetter("tag_name"), cmp=loose_compare, reverse=True)
RECURSIVE SortedByTag(_)
SortedByTag(rels) ==
  IF rels = <<>> THEN <<>>
  ELSE InsertDescending(SortedByTag(SubSeq(rels, 1, Len(rels) - 1)), rels[Len(rels)])

\* The release sequence main() hands to select_asset.
OrderReleases(e, rels) ==
  IF GetTruthy(e, "sort_by_highest_tag_names") THEN SortedByTag(rels) ELSE rels

\* ------------------------------------------------------------ get_releases

\* get_releases with the empty list looked at before the status code.
get_releases_empty_first(resp) ==
  IF resp.outcome = "HTTPError" THEN [error |-> "api_error", releases |-> <<>>]
  ELSE IF resp.json_null \/ resp.releases = <<>> THEN [error |-> "no_releases", releases |-> <<>>]
  ELSE IF resp.status # 200 THEN [error |-> "unexpected_status", releases |-> <<>>]
  ELSE [error |-> "", releases |-> resp.releases]

\* What get_releases does with the outcome of github.call_api: the releases,
\* or the ProcessorError it raises.
get_releases(resp) ==
  IF resp.outcome = "HTTPError" THEN [error |-> "api_error", releases |-> <<>>]
  ELSE IF resp.status # 200 THEN [error |-> "unexpected_status", releases |-> <<>>]
  ELSE IF resp.json_null \/ resp.releases = <<>> THEN [error |-> "no_releases", releases |-> <<>>]
  ELSE [error |-> "", releases |-> resp.releases]

\* ------------------------------------------------------------ select_asset

\* re.search(regex, name): the pattern may match anywhere in the name.
ReSearch(regex, name) == Contains(name, regex)

\* re.match(regex, name) for a regex of literal characters: the pattern has
\* to match at the start of the name, and need not match all of it.
ReMatch(regex, name) ==
  /\ Len(regex) =< Len(name)
  /\ \A i \in 1..Len(regex) : regex[i] = name[i]

\* The inner loop of select_asset: the index of the asset it breaks on, 0
\* when it runs to the end.
RECURSIVE ScanAssets(_, _, _)
ScanAssets(assets, e, j) ==
  IF j > Len(assets) THEN 0
  ELSE IF ~GetNonEmpty(e, "asset_regex") THEN j
  ELSE IF ReMatch(e["asset_regex"], assets[j]["name"]) THEN j
  ELSE ScanAssets(assets, e, j + 1)

\* The outer loop leaving at the first release whose assets were scanned
\* without a match, instead of going on to the next release.
RECURSIVE ScanReleasesBreak(_, _, _)
ScanReleasesBreak(rels, e, i) ==
  IF i > Len(rels) THEN <<>>
  ELSE IF rels[i]["prerelease"] /\ ~GetTruthy(e, "include_prereleases")
       THEN ScanReleasesBreak(rels, e, i + 1)
  ELSE IF ~GetNonEmpty(rels[i], "assets") THEN ScanReleasesBreak(rels, e, i + 1)
  ELSE LET j == ScanAssets(rels[i]["assets"], e, 1)
       IN  IF j = 0 THEN <<>> ELSE <<rels[i], rels[i]["assets"][j]>>

\* The outer loop of select_asset from release i on: `selected` when the
\* loop ends, <<>> for None and <<rel, asset>> otherwise.
RECURSIVE ScanReleases(_, _, _)
ScanReleases(rels, e, i) ==
  IF i > Len(rels) THEN <<>>
  ELSE IF rels[i]["prerelease"] /\ ~GetTruthy(e, "include_prereleases")
       THEN ScanReleases(rels, e, i + 1)
  ELSE IF ~GetNonEmpty(rels[i], "assets") THEN ScanReleases(rels, e, i + 1)
  ELSE LET j == ScanAssets(rels[i]["assets"], e, 1)
       IN  IF j = 0 THEN ScanReleases(rels, e, i + 1)
           ELSE <<rels[i], rels[i]["assets"][j]>>

\* select_asset(releases, self.env.get("asset_regex")): <<>> when it raises.
select_asset(rels, e) == ScanReleases(rels, e, 1)

\* --------------------------------------------------------------- variables

VARIABLES
  tag_in,        \* version derivation: the tag
  repo_in,       \* version derivation: the repository identifier
  version_out,   \* version derivation: the version derived from the tag
  version_again, \* version derivation: the version derived from version_out
  vpc,           \* version derivation: "input", "derived" or "rederived"
  sort_env,      \* ordering: the env, holding sort_by_highest_tag_names or not
  sort_in,       \* ordering: the fetched releases
  sort_out,      \* ordering: the releases handed to selection
  spc,           \* ordering: "input" or "ordered"
  sel_env,       \* selection: the env, holding the two filters or not
  sel_in,        \* selection: the releases handed to select_asset
  sel_out,       \* selection: `selected` when select_asset's loop ends
  selpc,         \* selection: "input", "selected" or "raised"
  pc,            \* a run: where main() is, "done" or "failed"
  env,           \* a run: self.env, inputs and outputs
  response,      \* a run: the outcome of github.call_api
  releases,      \* a run: main()'s local `releases`
  selected,      \* a run: <<selected_release, selected_asset>>, <<>> before
  error          \* a run: the error main() ended with, "" when none

vvars == <<tag_in, repo_in, version_out, version_again, vpc>>
svars == <<sort_env, sort_in, sort_out, spc>>
selvars == <<sel_env, sel_in, sel_out, selpc>>
rvars == <<pc, env, response, releases, selected, error>>
vars == <<vvars, svars, selvars, rvars>>

\* A dict with the key k or without it.
OptionalKey(k, values) == {<<>>} \cup {k :> v : v \in values}

\* ------------------------------------------------- version derivation alone

VersionChars == {"v", "p", "1", "-"}
VersionTags ==
  StringsUpTo(VersionChars, MaxTagLen)
    \cup {<<"v", "1", ".", "2", ".", "3">>, <<"1", ".", "2", ".", "3">>}
VersionRepos == {<<"o", "/", "p">>, <<"o", "/", "p", "1">>, <<"o", "/", "p", "r", "o", "j">>}

InitVersion ==
  /\ tag_in \in VersionTags
  /\ repo_in \in VersionRepos
  /\ version_out = <<>> /\ version_again = <<>> /\ vpc = "input"
  /\ sort_env = <<>> /\ sort_in = <<>> /\ sort_out = <<>> /\ spc = "idle"
  /\ sel_env = <<>> /\ sel_in = <<>> /\ sel_out = <<>> /\ selpc = "idle"
  /\ pc = "idle" /\ env = <<>> /\ response = <<>> /\ releases = <<>>
  /\ selected = <<>> /\ error = ""

\* Lines 172-180 applied to the tag.
VDerive ==
  /\ vpc = "input"
  /\ version_out' = Version(tag_in, repo_in)
  /\ vpc' = "derived"
  /\ UNCHANGED <<tag_in, repo_in, version_again, svars, selvars, rvars>>

\* Lines 172-180 applied to the version just derived.
VRederive ==
  /\ vpc = "derived"
  /\ version_again' = Version(version_out, repo_in)
  /\ vpc' = "rederived"
  /\ UNCHANGED <<tag_in, repo_in, version_out, svars, selvars, rvars>>

NextVersion == VDerive \/ VRederive

SpecVersion == InitVersion /\ [][NextVersion]_vars

\* The characters of s at the places in keep, in order.
KeepAt(s, keep) ==
  [k \in 1..Cardinality(keep) |->
     s[CHOOSE i \in keep : Cardinality({j \in keep : j =< i}) = k]]

\* Where the occurrences of old in s start, taking them from the left and
\* never two that overlap, from place i on.
RECURSIVE OccurrenceStarts(_, _, _)
OccurrenceStarts(s, old, i) ==
  IF old = <<>> \/ i + Len(old) - 1 > Len(s) THEN {}
  ELSE IF SubSeq(s, i, i + Len(old) - 1) = old
       THEN {i} \cup OccurrenceStarts(s, old, i + Len(old))
       ELSE OccurrenceStarts(s, old, i + 1)

\* s without the characters of those occurrences.
WithoutOccurrences(s, old) ==
  KeepAt(s, {i \in 1..Len(s) :
               \A j \in OccurrenceStarts(s, old, 1) : i < j \/ i >= j + Len(old)})

\* s without the characters of its first occurrence of old.
WithoutFirstOccurrence(s, old) ==
  LET starts == OccurrenceStarts(s, old, 1)
  IN  KeepAt(s, {i \in 1..Len(s) :
                   \A j \in starts : (\A k \in starts : j =< k) => (i < j \/ i >= j + Len(old))})

\* s from its first character that is not "-" on.
WithoutLeadingDashes(s) == KeepAt(s, {i \in 1..Len(s) : \E j \in 1..i : s[j] # "-"})

\* The part of "owner/repo" after the "/".
AfterSlash(repo) ==
  KeepAt(repo, {i \in 1..Len(repo) : \E j \in 1..(i - 1) : repo[j] = "/"})

\* C5 as stated: the version of a tag that starts with "v" is the tag without
\* that one character; the version of any other tag is the tag with the FIRST
\* occurrence of the repository's short name removed, then without its
\* leading "-".
C5_VersionRemovesFirstOccurrence ==
  vpc # "input" =>
    version_out =
      IF tag_in # <<>> /\ tag_in[1] = "v" THEN KeepAt(tag_in, 2..Len(tag_in))
      ELSE WithoutLeadingDashes(WithoutFirstOccurrence(tag_in, AfterSlash(repo_in)))

\* C5 amended: the version of a tag that starts with "v" is the tag without
\* that one character, the short name left in; the version of any other tag
\* is the tag with EVERY occurrence of the repository's short name removed
\* (left to right, never two that overlap), then without all its leading "-".
C5_VersionRemovesEveryOccurrence ==
  vpc # "input" =>
    version_out =
      IF tag_in # <<>> /\ tag_in[1] = "v" THEN KeepAt(tag_in, 2..Len(tag_in))
      ELSE WithoutLeadingDashes(WithoutOccurrences(tag_in, AfterSlash(repo_in)))

\* A version was derived from a tag without a leading "v" that holds the
\* short name twice.
C5_Witness ==
  /\ vpc = "derived"
  /\ ~StartsWith(tag_in, <<"v">>)
  /\ Cardinality(OccurrenceStarts(tag_in, AfterSlash(repo_in), 1)) = 2
  /\ version_out # <<>>

\* C9 as stated: deriving a version from a derived version gives it back,
\* and the version of a tag without a leading "v" holds no occurrence of the
\* short name and no leading "-".
C9_VersionIdempotent ==
  /\ vpc = "rederived" => version_again = version_out
  /\ (vpc # "input" /\ ~StartsWith(tag_in, <<"v">>)) =>
       /\ ~Contains(version_out, AfterSlash(repo_in))
       /\ ~StartsWith(version_out, <<"-">>)

\* C9 amended: deriving a version from a derived version gives it back when
\* the derived version does not start with "v" or "-" and holds no occurrence
\* of the short name, as "1.2.3" derived from "v1.2.3" does; and the version
\* of a tag without a leading "v" has no leading "-".
C9_VersionIdempotentOnStripped ==
  /\ (/\ vpc = "rederived"
      /\ ~StartsWith(version_out, <<"v">>)
      /\ ~StartsWith(version_out, <<"-">>)
      /\ ~Contains(version_out, AfterSlash(repo_in))) => version_again = version_out
  /\ (vpc # "input" /\ tag_in = <<"v", "1", ".", "2", ".", "3">>) =>
       version_out = <<"1", ".", "2", ".", "3">>
  /\ (vpc # "input" /\ ~StartsWith(tag_in, <<"v">>)) => ~StartsWith(version_out, <<"-">>)

\* A version that differs from its tag was derived again and came back, and
\* it came from a tag with leading dashes and the short name in it.
C9_Witness ==
  /\ vpc = "rederived"
  /\ version_again = version_out
  /\ StartsWith(tag_in, <<"-", "-">>)
  /\ Contains(tag_in, AfterSlash(repo_in))
  /\ version_out # <<>>

\* ----------------------------------------------------------- ordering alone

SortTags == {<<"1", ".", "9", ".", "0">>, <<"1", ".", "1", "0", ".", "0">>,
             <<"1", ".", "2", ".", "0">>, <<"1", ".", "2">>,
             <<"1", ".", "0", "2">>, <<"v", "1", ".", "2">>, <<"1", ".", "2", "-", "r", "c">>}
SortReleases == {[tag_name |-> t, prerelease |-> p] : t \in SortTags, p \in BOOLEAN}
SortEnvs == OptionalKey("sort_by_highest_tag_names", BOOLEAN)

InitSort ==
  /\ sort_env \in SortEnvs
  /\ sort_in \in ListsUpTo(SortReleases, MaxSortLen)
  /\ sort_out = <<>> /\ spc = "input"
  /\ tag_in = <<>> /\ repo_in = <<>> /\ version_out = <<>> /\ version_again = <<>>
  /\ vpc = "idle"
  /\ sel_env = <<>> /\ sel_in = <<>> /\ sel_out = <<>> /\ selpc = "idle"
  /\ pc = "idle" /\ env = <<>> /\ response = <<>> /\ releases = <<>>
  /\ selected = <<>> /\ error = ""

\* Lines 151-161 applied to the fetched releases.
SOrder ==
  /\ spc = "input"
  /\ sort_out' = OrderReleases(sort_env, sort_in)
  /\ spc' = "ordered"
  /\ UNCHANGED <<sort_env, sort_in, vvars, selvars, rvars>>

NextSort == SOrder

SpecSort == InitSort /\ [][NextSort]_vars

\* The tags of a release list, in its order.
TagsOf(rels) == [i \in 1..Len(rels) |-> rels[i]["tag_name"]]

\* How often x occurs in the list.
Occurrences(list, x) == Cardinality({i \in 1..Len(list) : list[i] = x})

\* b holds the releases of a, each as often, and nothing else.
IsPermutation(a, b) ==
  /\ Len(a) = Len(b)
  /\ \A i \in 1..Len(a) : Occurrences(a, a[i]) = Occurrences(b, a[i])

\* C7: without sort_by_highest_tag_names the releases handed to selection are
\* the fetched sequence; with it they are a permutation of the fetched
\* releases in descending order of tag under the loose comparison, which
\* puts "1.9.0", "1.10.0", "1.2.0" in the order "1.10.0", "1.9.0", "1.2.0"
\* and "1.2" below "1.2.0".
C7_OrderReleases ==
  spc = "ordered" =>
    IF "sort_by_highest_tag_names" \in DOMAIN sort_env /\ sort_env["sort_by_highest_tag_names"]
    THEN /\ IsPermutation(sort_in, sort_out)
         /\ \A i, j \in 1..Len(sort_out) :
              i < j => loose_compare(sort_out[i]["tag_name"], sort_out[j]["tag_name"]) >= 0
         /\ TagsOf(sort_in) = <<(<<"1", ".", "9", ".", "0">>), (<<"1", ".", "1", "0", ".", "0">>),
                                (<<"1", ".", "2", ".", "0">>)>>
              => TagsOf(sort_out) = <<(<<"1", ".", "1", "0", ".", "0">>),
                                      (<<"1", ".", "9", ".", "0">>), (<<"1", ".", "2", ".", "0">>)>>
         /\ TagsOf(sort_in) = <<(<<"1", ".", "2">>), (<<"1", ".", "2", ".", "0">>)>>
              => TagsOf(sort_out) = <<(<<"1", ".", "2", ".", "0">>), (<<"1", ".", "2">>)>>
    ELSE sort_out = sort_in

\* The three tags of the example were fetched in the order "1.9.0", "1.10.0",
\* "1.2.0" and sorted.
C7_Witness ==
  /\ spc = "ordered"
  /\ "sort_by_highest_tag_names" \in DOMAIN sort_env /\ sort_env["sort_by_highest_tag_names"]
  /\ TagsOf(sort_in) = <<(<<"1", ".", "9", ".", "0">>), (<<"1", ".", "1", "0", ".", "0">>),
                         (<<"1", ".", "2", ".", "0">>)>>
  /\ sort_out # sort_in

\* ---------------------------------------------------------- selection alone

Assets == {[name |-> <<"a", "b">>, browser_download_url |-> "U1"],
           [name |-> <<"b", "a">>, browser_download_url |-> "U2"]}
Regexes == {<<>>, <<"a">>}
SelectTags == {<<"v", "1">>, <<"v", "2">>}
SelectReleases ==
  {("tag_name" :> t) @@ ("prerelease" :> p) @@ a :
     t \in SelectTags, p \in BOOLEAN,
     a \in OptionalKey("assets", {<<>>} \cup ListsUpTo(Assets, MaxAssets))}
SelectEnvs ==
  {r @@ i : r \in OptionalKey("asset_regex", Regexes),
            i \in OptionalKey("include_prereleases", BOOLEAN)}

InitSelect ==
  /\ sel_env \in SelectEnvs
  /\ sel_in \in ListsUpTo(SelectReleases, MaxReleases)
  /\ sel_out = <<>> /\ selpc = "input"
  /\ tag_in = <<>> /\ repo_in = <<>> /\ version_out = <<>> /\ version_again = <<>>
  /\ vpc = "idle"
  /\ sort_env = <<>> /\ sort_in = <<>> /\ sort_out = <<>> /\ spc = "idle"
  /\ pc = "idle" /\ env = <<>> /\ response = <<>> /\ releases = <<>>
  /\ selected = <<>> /\ error = ""

\* Lines 103-132 applied to the releases.
SSelect ==
  /\ selpc = "input"
  /\ sel_out' = select_asset(sel_in, sel_env)
  /\ selpc' = IF sel_out' = <<>> THEN "raised" ELSE "selected"
  /\ UNCHANGED <<sel_env, sel_in, vvars, svars, rvars>>

NextSelect == SSelect

SpecSelect == InitSelect /\ [][NextSelect]_vars

\* include_prereleases is given and true.
IncludesPrereleases(e) == "include_prereleases" \in DOMAIN e /\ e["include_prereleases"]

\* asset_regex is absent or empty.
NoPattern(e) == "asset_regex" \notin DOMAIN e \/ e["asset_regex"] = <<>>

\* The assets of a release, none when it has no such key.
AssetsOf(rel) == IF "assets" \in DOMAIN rel THEN rel["assets"] ELSE <<>>

\* The asset satisfies the pattern: there is none, or some prefix of the
\* asset's filename is the pattern.
Satisfies(e, asset) ==
  NoPattern(e) \/ \E k \in 0..Len(asset["name"]) : SubSeq(asset["name"], 1, k) = e["asset_regex"]

\* The release is not an excluded prerelease.
NotExcluded(e, rel) == ~rel["prerelease"] \/ IncludesPrereleases(e)

\* Asset j of release i is an eligible pair.
Eligible(rels, e, i, j) ==
  /\ i \in 1..Len(rels)
  /\ j \in 1..Len(AssetsOf(rels[i]))
  /\ NotExcluded(e, rels[i])
  /\ Satisfies(e, AssetsOf(rels[i])[j])

\* The places of all pairs of the list.
Pairs(rels) ==
  UNION {{<<i, j>> : j \in 1..Len(AssetsOf(rels[i]))} : i \in 1..Len(rels)}

\* Some pair of the list is eligible.
SomeEligible(rels, e) == \E p \in Pairs(rels) : Eligible(rels, e, p[1], p[2])

\* Pair p comes before pair q in scan order.
ScannedBefore(p, q) == p[1] < q[1] \/ (p[1] = q[1] /\ p[2] < q[2])

\* C1: when some (release, asset) pair is eligible, select_asset selects the
\* eligible pair that comes first in scan order.
C1_FirstEligiblePair ==
  (selpc # "input" /\ SomeEligible(sel_in, sel_env)) =>
    \E p \in Pairs(sel_in) :
      /\ Eligible(sel_in, sel_env, p[1], p[2])
      /\ \A q \in Pairs(sel_in) : Eligible(sel_in, sel_env, q[1], q[2]) => ~ScannedBefore(q, p)
      /\ sel_out = <<sel_in[p[1]], AssetsOf(sel_in[p[1]])[p[2]]>>

\* The second asset of the second release was selected by a pattern that is
\* a proper prefix of its name: the first release, no prerelease, had only
\* assets that fail the pattern, and the asset before the selected one holds
\* the pattern further in.
C1_Witness ==
  /\ selpc = "selected"
  /\ Len(sel_in) = 2
  /\ sel_out[1] = sel_in[2]
  /\ ~sel_in[1]["prerelease"]
  /\ AssetsOf(sel_in[1]) # <<>>
  /\ ~NoPattern(sel_env)
  /\ Len(AssetsOf(sel_in[2])) = 2
  /\ sel_out[2] = AssetsOf(sel_in[2])[2]
  /\ AssetsOf(sel_in[2])[1] # sel_out[2]
  /\ sel_out[2]["name"] # sel_env["asset_regex"]

\* ------------------------------------------------------------------- a run

RunRepo == <<"o", "/", "p">>
RunEnvs ==
  {("github_repo" :> RunRepo) @@ r @@ i @@ o :
     r \in OptionalKey("asset_regex", Regexes),
     i \in OptionalKey("include_prereleases", BOOLEAN),
     o \in OptionalKey("sort_by_highest_tag_names", {TRUE})}

RunTags == {<<"v", "1", ".", "9">>, <<"p", "-", "1", ".", "1", "0">>}
RunBodies == {None, "notes"}
RunAssetLists == {<<>>, <<CHOOSE a \in Assets : a.name = <<"b", "a">> >>,
                  <<CHOOSE a \in Assets : a.name = <<"b", "a">>,
                    CHOOSE a \in Assets : a.name = <<"a", "b">> >>}
RunReleases ==
  {("tag_name" :> t) @@ ("prerelease" :> p) @@ ("assets" :> a) @@ b :
     t \in RunTags, p \in BOOLEAN, a \in RunAssetLists,
     b \in OptionalKey("body", RunBodies)}
RunStatuses == {200, 404}
Responses ==
  {[outcome |-> "HTTPError", status |-> 0, json_null |-> FALSE, releases |-> <<>>]}
    \cup {[outcome |-> "returned", status |-> st, json_null |-> TRUE, releases |-> <<>>] :
            st \in RunStatuses}
    \cup {[outcome |-> "returned", status |-> st, json_null |-> FALSE, releases |-> rels] :
            st \in RunStatuses, rels \in {<<>>} \cup ListsUpTo(RunReleases, MaxReleases)}

Init ==
  /\ pc = "start"
  /\ env \in RunEnvs
  /\ response = <<>> /\ releases = <<>> /\ selected = <<>> /\ error = ""
  /\ tag_in = <<>> /\ repo_in = <<>> /\ version_out = <<>> /\ version_again = <<>>
  /\ vpc = "idle"
  /\ sort_env = <<>> /\ sort_in = <<>> /\ sort_out = <<>> /\ spc = "idle"
  /\ sel_env = <<>> /\ sel_in = <<>> /\ sel_out = <<>> /\ selpc = "idle"

\* Line 150: the API answers and get_releases returns the list or raises.
GetReleases ==
  /\ pc = "start"
  /\ \E resp \in Responses :
       /\ response' = resp
       /\ LET got == get_releases(resp)
          IN  IF got.error # ""
              THEN pc' = "failed" /\ error' = got.error /\ UNCHANGED releases
              ELSE pc' = "fetched" /\ releases' = got.releases /\ UNCHANGED error
  /\ UNCHANGED <<env, selected, vvars, svars, selvars>>

\* Lines 151-161: the optional sort.
Order ==
  /\ pc = "fetched"
  /\ releases' = OrderReleases(env, releases)
  /\ pc' = "ordered"
  /\ UNCHANGED <<env, response, selected, error, vvars, svars, selvars>>

\* Line 164: select_asset sets selected_release and selected_asset, or raises.
SelectAsset ==
  /\ pc = "ordered"
  /\ LET sel == select_asset(releases, env)
     IN  IF sel = <<>>
         THEN pc' = "failed" /\ error' = "no_eligible_asset" /\ UNCHANGED selected
         ELSE pc' = "selected" /\ selected' = sel /\ UNCHANGED error
  /\ UNCHANGED <<env, response, releases, vvars, svars, selvars>>

\* Line 167.
RecordUrl ==
  /\ pc = "selected"
  /\ env' = Put(env, "url", selected[2]["browser_download_url"])
  /\ pc' = "url_recorded"
  /\ UNCHANGED <<response, releases, selected, error, vvars, svars, selvars>>

\* Lines 172-180.
RecordVersion ==
  /\ pc = "url_recorded"
  /\ env' = Put(env, "version", Version(selected[1]["tag_name"], env["github_repo"]))
  /\ pc' = "version_recorded"
  /\ UNCHANGED <<response, releases, selected, error, vvars, svars, selvars>>

\* Lines 183-187: a release without the key "body" raises KeyError.
RecordReleaseNotes ==
  /\ pc = "version_recorded"
  /\ IF "body" \notin DOMAIN selected[1]
     THEN pc' = "failed" /\ error' = "KeyError_body" /\ UNCHANGED env
     ELSE /\ env' = Put(env, "release_notes",
                        IF Truthy(selected[1]["body"]) THEN selected[1]["body"] ELSE "")
          /\ pc' = "done"
          /\ UNCHANGED error
  /\ UNCHANGED <<response, releases, selected, vvars, svars, selvars>>

Next ==
  \/ GetReleases
  \/ Order
  \/ SelectAsset
  \/ RecordUrl
  \/ RecordVersion
  \/ RecordReleaseNotes

Spec == Init /\ [][Next]_vars

\* The run is past select_asset: a pair is selected or the run has failed there.
PastSelection ==
  \/ pc \in {"selected", "url_recorded", "version_recorded", "done"}
  \/ pc = "failed" /\ error \in {"no_eligible_asset", "KeyError_body"}

\* The release has an asset that satisfies the pattern.
HasSatisfyingAsset(e, rel) ==
  \E j \in 1..Len(AssetsOf(rel)) : Satisfies(e, AssetsOf(rel)[j])

\* C2: without include_prereleases (false or unset) the selected release is
\* never a prerelease, sorted or not, and a run in which only prereleases
\* carry satisfying assets fails with the no-eligible-asset error.
C2_NoPrereleaseSelected ==
  ~IncludesPrereleases(env) =>
    /\ selected # <<>> => ~selected[1]["prerelease"]
    /\ (/\ PastSelection
        /\ \A i \in 1..Len(response.releases) :
             HasSatisfyingAsset(env, response.releases[i]) => response.releases[i]["prerelease"])
         => (pc = "failed" /\ error = "no_eligible_asset")

\* A run succeeded without include_prereleases though the fetched list
\* starts with a prerelease that carries a satisfying asset.
C2_Witness ==
  /\ pc = "done"
  /\ ~IncludesPrereleases(env)
  /\ response.releases[1]["prerelease"]
  /\ HasSatisfyingAsset(env, response.releases[1])
  /\ ~selected[1]["prerelease"]

\* C3: get_releases hands on the list only when the call raised no HTTP
\* error, returned status 200 and returned a list that is not empty or null;
\* otherwise the run fails with the API error, else the unexpected-status
\* error, else the empty-result error, whichever applies first.
C3_GetReleasesErrors ==
  pc # "start" =>
    LET raised == response.outcome = "HTTPError"
        badStatus == response.status # 200
        empty == response.json_null \/ Len(response.releases) = 0
        fetchErrors == {"api_error", "unexpected_status", "no_releases"}
    IN  /\ raised => (pc = "failed" /\ error = "api_error")
        /\ (~raised /\ badStatus) => (pc = "failed" /\ error = "unexpected_status")
        /\ (~raised /\ ~badStatus /\ empty) => (pc = "failed" /\ error = "no_releases")
        /\ (~raised /\ ~badStatus /\ ~empty) =>
             /\ error \notin fetchErrors
             /\ pc = "fetched" => releases = response.releases
        /\ error \notin fetchErrors => Len(releases) > 0

\* The call returned an empty list with a status that is not 200, and the
\* run failed with the unexpected-status error.
C3_Witness ==
  /\ pc = "failed"
  /\ response.outcome = "returned"
  /\ response.status # 200
  /\ ~response.json_null /\ response.releases = <<>>
  /\ error = "unexpected_status"

\* C4: a run has selected one pair, an asset of a release of the fetched
\* list, or it has failed: it fails with the no-eligible-asset error exactly
\* when no pair of the list is eligible, and no output is derived without a
\* selection.
C4_OnePairOrFailure ==
  /\ selected # <<>> =>
       /\ Len(selected) = 2
       /\ \E i \in 1..Len(response.releases) : response.releases[i] = selected[1]
       /\ \E j \in 1..Len(AssetsOf(selected[1])) : AssetsOf(selected[1])[j] = selected[2]
  /\ error = "no_eligible_asset" => (pc = "failed" /\ selected = <<>>)
  /\ PastSelection =>
       (error = "no_eligible_asset" <=> ~SomeEligible(response.releases, env))
  /\ PastSelection => (selected = <<>> <=> pc = "failed" /\ error = "no_eligible_asset")
  /\ (DOMAIN env \cap {"url", "version", "release_notes"} # {}) => selected # <<>>

\* A run failed with the no-eligible-asset error on a list of an excluded
\* prerelease that carries a satisfying asset and a release whose assets all
\* fail the pattern.
C4_Witness ==
  /\ pc = "failed"
  /\ error = "no_eligible_asset"
  /\ \E i \in 1..Len(response.releases) :
       response.releases[i]["prerelease"] /\ HasSatisfyingAsset(env, response.releases[i])
  /\ \E i \in 1..Len(response.releases) :
       /\ ~response.releases[i]["prerelease"]
       /\ AssetsOf(response.releases[i]) # <<>>

\* The notes main() is to publish for a release: its body, or "" when the
\* body is null, empty or not there.
NotesOf(rel) ==
  IF "body" \in DOMAIN rel /\ rel["body"] \notin {None, ""} THEN rel["body"] ELSE ""

\* C6: a run is never aborted by a release without a body, and after a
\* successful run release_notes is a string, the body of the selected
\* release, or "" when that body is null, empty or absent.
C6_ReleaseNotesIsString ==
  /\ error # "KeyError_body"
  /\ pc = "done" =>
       /\ "release_notes" \in DOMAIN env
       /\ env["release_notes"] # None
       /\ env["release_notes"] = NotesOf(selected[1])

\* C8: a run that has failed has written none of url, version and
\* release_notes.
C8_NoPartialOutputs ==
  pc = "failed" => DOMAIN env \cap {"url", "version", "release_notes"} = {}

\* sort_by_highest_tag_names is given and true.
SortsByTag(e) == "sort_by_highest_tag_names" \in DOMAIN e /\ e["sort_by_highest_tag_names"]

\* C10: a successful run with sort_by_highest_tag_names has selected a
\* release that is not an excluded prerelease and has a satisfying asset,
\* no such release of the fetched list has a strictly higher tag, the
\* selected asset is the first satisfying asset of the release, and url,
\* version and release_notes are those of the selected pair.
C10_FilterThenPickInSortedOrder ==
  (pc = "done" /\ SortsByTag(env)) =>
    LET rel == selected[1]
        asset == selected[2]
        fetched == response.releases
        short == AfterSlash(env["github_repo"])
    IN  /\ \E i \in 1..Len(fetched) : fetched[i] = rel
        /\ NotExcluded(env, rel) /\ HasSatisfyingAsset(env, rel)
        /\ \A k \in 1..Len(fetched) :
             (NotExcluded(env, fetched[k]) /\ HasSatisfyingAsset(env, fetched[k]))
               => loose_compare(fetched[k]["tag_name"], rel["tag_name"]) =< 0
        /\ \E j \in 1..Len(AssetsOf(rel)) :
             /\ AssetsOf(rel)[j] = asset
             /\ Satisfies(env, asset)
             /\ \A k \in 1..(j - 1) : ~Satisfies(env, AssetsOf(rel)[k])
        /\ env["url"] = asset["browser_download_url"]
        /\ env["version"] =
             IF rel["tag_name"][1] = "v" THEN KeepAt(rel["tag_name"], 2..Len(rel["tag_name"]))
             ELSE WithoutLeadingDashes(WithoutOccurrences(rel["tag_name"], short))
        /\ env["release_notes"] = NotesOf(rel)

\* A sorted run succeeded with a release that is not the first of the fetched
\* list, though that first one is eligible too, and by its second asset.
C10_Witness ==
  /\ pc = "done"
  /\ SortsByTag(env)
  /\ selected[1] # response.releases[1]
  /\ NotExcluded(env, response.releases[1])
  /\ HasSatisfyingAsset(env, response.releases[1])
  /\ Len(AssetsOf(selected[1])) = 2 /\ selected[2] = AssetsOf(selected[1])[2]
  /\ env["version"] # selected[1]["tag_name"]

====
